---- MODULE Spec2Model ----
(***************************************************************************)
(* Model of the two airsensor command-line programs of goairsensor:        *)
(*   "main_go"  = cmd/airsensor_httpd/main.go (github.com/google/gousb)     *)
(*   "part_000" = the second main package (github.com/kylelemons/gousb)     *)
(* Each program is one straight-line main(): create a USB context, open    *)
(* the device, open the IN and OUT endpoints, flush, write the command,    *)
(* read the response, decode and report it, flush again, return.           *)
(* The USB library is the environment: every call into it is issued by the *)
(* program (Issue) and completed by a return action that draws the call's  *)
(* result from the results the library's signature allows.                 *)
(***************************************************************************)
EXTENDS Integers, Sequences, FiniteSets, TLC

VARIABLES
  variant,   \* which of the two programs runs
  pc,        \* position of main()
  inflight,  \* call sites whose library call was issued and has not returned
  devs,      \* device handles returned by the open call (<<>> = none / nil dev)
  acquired,  \* resources acquired so far, in order of acquisition
  deferred,  \* stack of deferred calls, last registered last
  released,  \* resources released so far, in order of release
  calls,     \* log of library calls, returns and the decode step
  buf,       \* the byte slice buf: its length, bytes 2 and 3 and their origin
  inq,       \* packets pending on the device's IN endpoint
  voc,       \* the decoded value
  report,    \* the reading lines printed so far
  exit,      \* exit status of the process, -1 while it runs
  flags,     \* the parsed command-line flags
  attached,  \* vendor:product of every USB device attached, in bus order
  opened,    \* the interface and endpoints opened so far, with their arguments
  msg        \* what the fatal log line names, "" while none was printed

vars == <<variant, pc, inflight, devs, acquired, deferred, released, calls,
          buf, inq, voc, report, exit, flags, attached, opened, msg>>

\* ---------------------------------------------------------------- bounds
MaxDevs == 2
MaxStale == 1

\* ------------------------------------------------------ program constants
CmdLen == 16
CmdB2 == 42
CmdB3 == 84
VocMin == 450
VocMax == 2000

Variants == {"main_go", "part_000"}

\* flag defaults: -device, -config, -interface, -setup, -endpoint
DefaultFlags ==
  [device |-> "03eb:2013", config |-> 1, iface |-> 0, setup |-> 0, endpoint |-> 1]

\* command lines: the defaults, another -device, other indices and endpoint
FlagSets ==
  {DefaultFlags,
   [DefaultFlags EXCEPT !.device = "1234:5678"],
   [device |-> "03eb:2013", config |-> 2, iface |-> 1, setup |-> 1, endpoint |-> 3]}

\* vendor:product pairs of the devices that may be attached
Ids == {"03eb:2013", "1234:5678"}

\* OpenDeviceWithVIDPID(0x03eb, 0x2013)
HardSelector == "03eb:2013"

\* the configuration a device is in when it is opened
ActiveConfig == 1

\* endpoint numbers in InEndpoint(1) / 1|ENDPOINT_DIR_IN and OutEndpoint(2) / 2|ENDPOINT_DIR_OUT
InEpNum == 1
OutEpNum == 2

\* bytes the device may put at offsets 2 and 3 of its response
SampleLo == {0, 193, 194, 208, 209, 255}
SampleHi == {0, 1, 6, 7, 127, 128, 255}
\* lengths of the response packet
RespLens == {0, 3, 16}
\* byte counts the OUT endpoint may report for the 16-byte write
WriteCounts == {0, 10, CmdLen}

DevNames == <<"dev1", "dev2", "dev3", "dev4">>

Min(a, b) == IF a < b THEN a ELSE b

\* ------------------------------------------------------- decode, classify
RECURSIVE BitOr(_, _)
BitOr(a, b) ==
  IF a = 0 THEN b
  ELSE IF b = 0 THEN a
  ELSE (IF a % 2 = 1 \/ b % 2 = 1 THEN 1 ELSE 0) + 2 * BitOr(a \div 2, b \div 2)

Shl16(x, k) == (x * 2^k) % 65536

Int16(u) == ((u + 32768) % 65536) - 32768

read_le_int16_be(data) == Int16(BitOr(data[2], Shl16(data[1], 8)))

\* binary.Read(buf, binary.LittleEndian, &ret) with ret int16
read_le_int16(data) == Int16(BitOr(data[1], Shl16(data[2], 8)))

classify_excl(v) ==
  IF (v > VocMin) /\ (v <= VocMax)
  THEN [kind |-> "Valid", value |-> v]
  ELSE [kind |-> "OutOfRange", value |-> v]

\* if (voc >= 450) && (voc <= 2000) { "VOC concentration" } else { "invalid" }
classify(v) ==
  IF (v >= VocMin) /\ (v <= VocMax)
  THEN [kind |-> "Valid", value |-> v]
  ELSE [kind |-> "OutOfRange", value |-> v]

\* ------------------------------------------------------------- the buffer
\* var buf []byte
NilBuf == [len |-> 0, b2 |-> 0, b3 |-> 0, s2 |-> "none", s3 |-> "none"]

CommandBuf_fresh ==
  [len |-> CmdLen, b2 |-> 0, b3 |-> 0, s2 |-> "none", s3 |-> "none"]

\* buf = []byte("\x40\x68\x2a\x54\x52\x0a\x40 ... \x40")
CommandBuf ==
  [len |-> CmdLen, b2 |-> CmdB2, b3 |-> CmdB3, s2 |-> "command", s3 |-> "command"]

\* the first n bytes of packet p copied into b
Fill(b, p, n) ==
  [len |-> b.len,
   b2 |-> IF n >= 3 THEN p.lo ELSE b.b2,
   b3 |-> IF n >= 4 THEN p.hi ELSE b.b3,
   s2 |-> IF n >= 3 THEN p.src ELSE b.s2,
   s3 |-> IF n >= 4 THEN p.src ELSE b.s3]

StalePackets == {[src |-> "stale", n |-> CmdLen, lo |-> 194, hi |-> 6]}

RECURSIVE SeqsUpTo(_, _)
SeqsUpTo(S, n) ==
  IF n = 0 THEN {<<>>}
  ELSE SeqsUpTo(S, n - 1) \cup
       {Append(s, x) : s \in {t \in SeqsUpTo(S, n - 1) : Len(t) = n - 1}, x \in S}

\* results of ep_read.Read(b) while q is pending on the IN endpoint: a
\* transport error, or up to len(b) bytes of the packet at the head of q
EpRead(b, q) ==
  {[n |-> 0, err |-> TRUE, buf |-> b, inq |-> q]} \cup
  (IF b.len = 0 \/ q = <<>>
   THEN {[n |-> 0, err |-> FALSE, buf |-> b, inq |-> q]}
   ELSE LET p == Head(q)
            n == Min(p.n, b.len)
        IN {[n |-> n, err |-> FALSE, buf |-> Fill(b, p, n), inq |-> Tail(q)]})

\* what the device queues on its IN endpoint once it has the whole frame:
\* the response and, possibly, the trailing packet
DeviceAnswers ==
  {<<[src |-> "response", n |-> rn, lo |-> lo, hi |-> hi]>> \o tr :
     rn \in RespLens, lo \in SampleLo, hi \in SampleHi,
     tr \in {<<>>, <<[src |-> "trailing", n |-> CmdLen, lo |-> 0, hi |-> 0]>>}}

\* ------------------------------------------------------- order of main()
SitesOf(v) ==
  IF v = "main_go"
  THEN <<"new_ctx", "open", "claim", "in_ep", "out_ep", "flush1", "write",
         "read", "decode", "flush2", "return">>
  ELSE <<"new_ctx", "open", "in_ep", "out_ep", "flush1", "write",
         "read", "decode", "flush2", "return">>

IndexOf(S, s) == CHOOSE i \in 1..Len(S) : S[i] = s

NextSite_swapped(v, s) ==
  IF s = "flush1" THEN "read"
  ELSE IF s = "read" THEN "write"
  ELSE IF s = "write" THEN "decode"
  ELSE SitesOf(v)[IndexOf(SitesOf(v), s) + 1]

NextSite_loop(v, s) ==
  IF s = "flush2" THEN "flush1"
  ELSE SitesOf(v)[IndexOf(SitesOf(v), s) + 1]

NextSite_report_last(v, s) ==
  IF s = "read" THEN "flush2"
  ELSE IF s = "flush2" THEN "decode"
  ELSE IF s = "decode" THEN "return"
  ELSE SitesOf(v)[IndexOf(SitesOf(v), s) + 1]

\* the statement that follows statement s in main()
NextSite(v, s) == SitesOf(v)[IndexOf(SitesOf(v), s) + 1]

\* the vendor:product the open call looks for: main.go passes the literals
\* 0x03eb, 0x2013; part_000 compares each descriptor with *device
Selector(v) == IF v = "main_go" THEN HardSelector ELSE flags.device

\* the attached devices whose vendor:product is sel, in bus order
Matches(sel) ==
  SelectSeq([i \in 1..Len(attached) |-> i], LAMBDA i : attached[i] = sel)

\* the interface main.go claims: #0 alt #0 of the active config
DefaultIntf ==
  [what |-> "intf", cfg |-> ActiveConfig, iface |-> 0, setup |-> 0, ep |-> 0]

\* the endpoint each program opens in direction dir with number num
Endpoint(v, dir, num) ==
  IF v = "main_go"
  THEN [what |-> dir, cfg |-> ActiveConfig, iface |-> 0, setup |-> 0, ep |-> num]
  ELSE [what |-> dir, cfg |-> flags.config, iface |-> flags.iface,
        setup |-> flags.setup, ep |-> num]

\* statements that are calls into the USB library
CallSites == {"open", "claim", "in_ep", "out_ep", "flush1", "write", "read", "flush2"}

\* dev := devs[0]; 0 stands for the nil *Device
CurDev == IF devs = <<>> THEN 0 ELSE devs[1]

Ev(ev, site, h, n, err) == [ev |-> ev, site |-> site, h |-> h, n |-> n, err |-> err]

ReadFailed_ignored(err) == FALSE

\* if err != nil { log.Fatal("Failed to read pending bytes into buffer") }
ReadFailed(err) == err

\* main.go: if num != len(buf) { log.Fatalf }; part_000: if err != nil
WriteFailed(v, n, err) == IF v = "main_go" THEN n # CmdLen ELSE err

\* log.Fatal / log.Fatalf: print, then os.Exit(1); deferred calls do not run
LogFatal == pc' = "exited" /\ exit' = 1

\* the same, m being what the printed line names
Fatalf(m) == LogFatal /\ msg' = m

Goto(s) == pc' = s /\ exit' = exit /\ msg' = msg

\* ------------------------------------------------------------------ Init
Init ==
  /\ variant \in Variants
  /\ pc = "new_ctx"
  /\ inflight = {}
  /\ devs = <<>>
  /\ acquired = <<>>
  /\ deferred = <<>>
  /\ released = <<>>
  /\ calls = <<>>
  /\ buf = NilBuf
  /\ inq \in SeqsUpTo(StalePackets, MaxStale)
  /\ voc = 0
  /\ report = <<>>
  /\ exit = -1
  /\ flags \in FlagSets
  /\ attached \in SeqsUpTo(Ids, MaxDevs)
  /\ opened = <<>>
  /\ msg = ""

\* --------------------------------------------------------------- actions
\* ctx := NewContext(); defer ctx.Close()
NewContext ==
  /\ pc = "new_ctx"
  /\ acquired' = Append(acquired, "ctx")
  /\ deferred' = Append(deferred, "ctx.Close")
  /\ Goto(NextSite(variant, "new_ctx"))
  /\ UNCHANGED <<variant, flags, attached, opened, inflight, devs, released,
                 calls, buf, inq, voc, report>>

\* main() calls into the library at the current statement and blocks in it;
\* the command frame is assigned to buf right before the write
Issue ==
  /\ pc \in CallSites
  /\ pc \notin inflight
  /\ inflight' = inflight \cup {pc}
  /\ calls' = Append(calls, Ev("call", pc, CurDev, 0, FALSE))
  /\ buf' = IF pc = "write" THEN CommandBuf ELSE buf
  /\ UNCHANGED <<variant, flags, attached, opened, msg, pc, devs, acquired,
                 deferred, released, inq, voc, report, exit>>

\* main.go: dev, err := ctx.OpenDeviceWithVIDPID(0x03eb, 0x2013); fatal on
\* err; defer dev.Close().  The library opens the first matching device; with
\* no matching device it returns a nil device and a nil error.
OpenDeviceWithVIDPID ==
  /\ variant = "main_go"
  /\ "open" \in inflight
  /\ inflight' = {}
  /\ LET m == Matches(Selector(variant))
         k == Len(m)
     IN \E err \in BOOLEAN :
       /\ calls' = Append(calls, Ev("ret", "open", 0, k, err))
       /\ IF err
          THEN /\ Fatalf("open")
               /\ UNCHANGED <<devs, acquired, deferred>>
          ELSE /\ devs' = IF k = 0 THEN <<>> ELSE <<m[1]>>
               /\ acquired' = IF k = 0 THEN acquired
                              ELSE Append(acquired, DevNames[m[1]])
               /\ deferred' = Append(deferred, "dev.Close")
               /\ Goto(NextSite(variant, "open"))
  /\ UNCHANGED <<variant, flags, attached, opened, released, buf, inq, voc, report>>

\* part_000: devs, err := ctx.ListDevices(...): every device whose
\* vendor:product equals *device is opened; defer close of every dev;
\* fatal on err; fatal on len(devs) == 0; dev := devs[0]
ListDevices ==
  /\ variant = "part_000"
  /\ "open" \in inflight
  /\ inflight' = {}
  /\ LET m == Matches(Selector(variant))
         k == Len(m)
     IN \E err \in BOOLEAN :
       /\ calls' = Append(calls, Ev("ret", "open", 0, k, err))
       /\ devs' = m
       /\ acquired' = acquired \o [i \in 1..k |-> DevNames[m[i]]]
       /\ deferred' = Append(deferred, "devs.Close")
       /\ IF err \/ k = 0 THEN Fatalf("open") ELSE Goto(NextSite(variant, "open"))
  /\ UNCHANGED <<variant, flags, attached, opened, released, buf, inq, voc, report>>

\* main.go: intf, done, err := dev.DefaultInterface(); fatal on err;
\* defer done().  On the nil device the call dereferences nil and panics.
DefaultInterface ==
  /\ variant = "main_go"
  /\ "claim" \in inflight
  /\ inflight' = {}
  /\ IF CurDev = 0
     THEN /\ calls' = Append(calls, Ev("panic", "claim", 0, 0, TRUE))
          /\ Goto("panicking")
          /\ UNCHANGED <<acquired, deferred, opened>>
     ELSE \E err \in BOOLEAN :
          /\ calls' = Append(calls, Ev("ret", "claim", CurDev, 0, err))
          /\ IF err
             THEN Fatalf("claim") /\ UNCHANGED <<acquired, deferred, opened>>
             ELSE /\ acquired' = Append(acquired, "intf")
                  /\ deferred' = Append(deferred, "done")
                  /\ opened' = Append(opened, DefaultIntf)
                  /\ Goto(NextSite(variant, "claim"))
  /\ UNCHANGED <<variant, flags, attached, devs, released, buf, inq, voc, report>>

\* the endpoint the fatal line names: main.go prints "%s.OutEndpoint(0)" for
\* both opens, part_000 "read endpoint" and "write endpoint"
EndpointMsg(v, dir) == IF v = "main_go" THEN "OUT" ELSE dir

\* ep_read, err := intf.InEndpoint(1) / dev.OpenEndpoint(.., 1|IN); fatal on err
OpenInEndpoint ==
  /\ "in_ep" \in inflight
  /\ inflight' = {}
  /\ \E err \in BOOLEAN :
       /\ calls' = Append(calls, Ev("ret", "in_ep", CurDev, 0, err))
       /\ IF err
          THEN Fatalf(EndpointMsg(variant, "IN")) /\ opened' = opened
          ELSE /\ opened' = Append(opened, Endpoint(variant, "IN", InEpNum))
               /\ Goto(NextSite(variant, "in_ep"))
  /\ UNCHANGED <<variant, flags, attached, devs, acquired, deferred, released,
                 buf, inq, voc, report>>

OpenOutEndpoint_unchecked ==
  /\ "out_ep" \in inflight
  /\ inflight' = {}
  /\ \E err \in BOOLEAN :
       /\ calls' = Append(calls, Ev("ret", "out_ep", CurDev, 0, err))
       /\ opened' = IF err THEN opened
                    ELSE Append(opened, Endpoint(variant, "OUT", OutEpNum))
       /\ Goto(NextSite(variant, "out_ep"))
  /\ UNCHANGED <<variant, flags, attached, devs, acquired, deferred, released,
                 buf, inq, voc, report>>

\* ep_write, err := intf.OutEndpoint(2) / dev.OpenEndpoint(.., 2|OUT); fatal on err
OpenOutEndpoint ==
  /\ "out_ep" \in inflight
  /\ inflight' = {}
  /\ \E err \in BOOLEAN :
       /\ calls' = Append(calls, Ev("ret", "out_ep", CurDev, 0, err))
       /\ IF err
          THEN Fatalf(EndpointMsg(variant, "OUT")) /\ opened' = opened
          ELSE /\ opened' = Append(opened, Endpoint(variant, "OUT", OutEpNum))
               /\ Goto(NextSite(variant, "out_ep"))
  /\ UNCHANGED <<variant, flags, attached, devs, acquired, deferred, released,
                 buf, inq, voc, report>>

\* num, err := ep_read.Read(buf) at statement site; fatal on err
ReadAt(site) ==
  /\ site \in inflight
  /\ inflight' = {}
  /\ \E r \in EpRead(buf, inq) :
       /\ buf' = r.buf
       /\ inq' = r.inq
       /\ calls' = Append(calls, Ev("ret", site, CurDev, r.n, r.err))
       /\ IF ReadFailed(r.err) THEN Fatalf("read") ELSE Goto(NextSite(variant, site))
  /\ UNCHANGED <<variant, flags, attached, opened, devs, acquired, deferred,
                 released, voc, report>>

\* "Read invalid bytes from device": the read into the nil buf
FlushStale == ReadAt("flush1")

\* "request data step 2: read response"
ReadResponse == ReadAt("read")

\* "request data step 3: flush"
FlushTrailing == ReadAt("flush2")

\* num, err = ep_write.Write(buf); the device answers a complete frame
WriteCommand ==
  /\ "write" \in inflight
  /\ inflight' = {}
  /\ \E n \in WriteCounts, err \in BOOLEAN :
       /\ calls' = Append(calls, Ev("ret", "write", CurDev, n, err))
       /\ IF n = CmdLen
          THEN \E a \in DeviceAnswers : inq' = inq \o a
          ELSE inq' = inq
       /\ IF WriteFailed(variant, n, err)
          THEN Fatalf("write")
          ELSE Goto(NextSite(variant, "write"))
  /\ UNCHANGED <<variant, flags, attached, opened, devs, acquired, deferred,
                 released, buf, voc, report>>

\* voc := read_le_int16(buf[2:4]); print the reading or the invalid value
Decode ==
  /\ pc = "decode"
  /\ voc' = read_le_int16(<<buf.b2, buf.b3>>)
  /\ report' = Append(report, classify(voc'))
  /\ calls' = Append(calls, Ev("decode", "decode", CurDev, 0, FALSE))
  /\ Goto(NextSite(variant, "decode"))
  /\ UNCHANGED <<variant, flags, attached, opened, inflight, devs, acquired,
                 deferred, released, buf, inq>>

\* what one deferred call releases
Releases(d) ==
  IF d = "ctx.Close" THEN <<"ctx">>
  ELSE IF d = "done" THEN <<"intf">>
  ELSE IF d = "dev.Close" THEN (IF devs = <<>> THEN <<>> ELSE <<DevNames[devs[1]]>>)
  ELSE [i \in 1..Len(devs) |-> DevNames[devs[i]]]

RunDeferred_fifo ==
  /\ pc \in {"return", "panicking"}
  /\ deferred # <<>>
  /\ released' = released \o Releases(deferred[1])
  /\ deferred' = Tail(deferred)
  /\ UNCHANGED <<variant, flags, attached, opened, msg, pc, inflight, devs,
                 acquired, calls, buf, inq, voc, report, exit>>

\* main() returns or panics: the deferred calls run, last registered first
RunDeferred ==
  /\ pc \in {"return", "panicking"}
  /\ deferred # <<>>
  /\ released' = released \o Releases(deferred[Len(deferred)])
  /\ deferred' = SubSeq(deferred, 1, Len(deferred) - 1)
  /\ UNCHANGED <<variant, flags, attached, opened, msg, pc, inflight, devs,
                 acquired, calls, buf, inq, voc, report, exit>>

\* the process ends: status 0 after a return, 2 after a panic
Exit ==
  /\ pc \in {"return", "panicking"}
  /\ deferred = <<>>
  /\ exit' = IF pc = "return" THEN 0 ELSE 2
  /\ pc' = "exited"
  /\ UNCHANGED <<variant, flags, attached, opened, msg, inflight, devs,
                 acquired, deferred, released, calls, buf, inq, voc, report>>

Next ==
  \/ NewContext
  \/ Issue
  \/ OpenDeviceWithVIDPID
  \/ ListDevices
  \/ DefaultInterface
  \/ OpenInEndpoint
  \/ OpenOutEndpoint
  \/ FlushStale
  \/ WriteCommand
  \/ ReadResponse
  \/ Decode
  \/ FlushTrailing
  \/ RunDeferred
  \/ Exit

Spec == Init /\ [][Next]_vars

\* every library call returns and main() is never suspended for ever
FairSpec == Spec /\ WF_vars(Next)

\* ------------------------------------------- the decode step on all bytes
\* the log of a run in which every call up to the response read succeeded
CallRet(site, n) == <<Ev("call", site, 1, 0, FALSE), Ev("ret", site, 1, n, FALSE)>>

CleanLog(v) ==
  <<Ev("call", "open", 0, 0, FALSE), Ev("ret", "open", 0, 1, FALSE)>>
  \o (IF v = "main_go" THEN CallRet("claim", 0) ELSE <<>>)
  \o CallRet("in_ep", 0) \o CallRet("out_ep", 0) \o CallRet("flush1", 0)
  \o CallRet("write", CmdLen) \o CallRet("read", CmdLen)

\* main() right after a response read that filled buf, for every pair of
\* bytes at offsets 2 and 3
InitDecode ==
  /\ variant \in Variants
  /\ pc = "decode"
  /\ inflight = {}
  /\ devs = <<1>>
  /\ acquired = IF variant = "main_go" THEN <<"ctx", "dev1", "intf">> ELSE <<"ctx", "dev1">>
  /\ deferred = IF variant = "main_go" THEN <<"ctx.Close", "dev.Close", "done">>
                ELSE <<"ctx.Close", "devs.Close">>
  /\ released = <<>>
  /\ calls = CleanLog(variant)
  /\ \E lo \in 0..255, hi \in 0..255 :
       buf = [len |-> CmdLen, b2 |-> lo, b3 |-> hi, s2 |-> "response", s3 |-> "response"]
  /\ inq = <<>>
  /\ voc = 0
  /\ report = <<>>
  /\ exit = -1
  /\ flags = DefaultFlags
  /\ attached = <<HardSelector>>
  /\ opened = (IF variant = "main_go" THEN <<DefaultIntf>> ELSE <<>>)
              \o <<Endpoint(variant, "IN", InEpNum), Endpoint(variant, "OUT", OutEpNum)>>
  /\ msg = ""

NextDecode == Decode

SpecDecode == InitDecode /\ [][NextDecode]_vars

\* ---------------------------------------------------------------- claims
Last(s) == s[Len(s)]

Times(s, x) == Cardinality({i \in 1..Len(s) : s[i] = x})

Returned(i, site) == calls[i].ev = "ret" /\ calls[i].site = site

ReadSites == {"flush1", "read", "flush2"}

\* C1: on every exit path every resource acquired so far has been released
\* exactly once when the process terminates.
C1_ReleasedOnEveryExit ==
  pc = "exited" =>
    \A i \in 1..Len(acquired) : Times(released, acquired[i]) = 1

\* C2: a write that reports fewer than 16 bytes, with or without an error,
\* is fatal: it is the last library call of the run and the exit status is 1.
C2_ShortWriteFatal ==
  \A i \in 1..Len(calls) :
    (Returned(i, "write") /\ calls[i].n < 16) =>
      (i = Len(calls) /\ pc = "exited" /\ exit = 1)

\* C3: when the open call finds no matching device and reports no error, the
\* run ends there with a fatal error and no later call is attempted.
C3_NoDeviceFatal ==
  \A i \in 1..Len(calls) :
    (Returned(i, "open") /\ calls[i].n = 0 /\ ~calls[i].err) =>
      (i = Len(calls) /\ pc = "exited" /\ exit = 1)

AnyFailure ==
  \E i \in 1..Len(calls) :
    \/ calls[i].err
    \/ Returned(i, "open") /\ calls[i].n = 0
    \/ Returned(i, "write") /\ calls[i].n < 16

ExchangeCompleted ==
  /\ \A i \in 1..Len(calls) : ~calls[i].err
  /\ \E i \in 1..Len(calls) : Returned(i, "flush1")
  /\ \E i \in 1..Len(calls) : Returned(i, "write") /\ calls[i].n = 16
  /\ \E i \in 1..Len(calls) : Returned(i, "read")
  /\ \E i \in 1..Len(calls) : Returned(i, "flush2")

\* C4: the process exits with status zero when the whole exchange completed
\* without failure, and with a non-zero status when discovery, an endpoint
\* open, a read or the write failed.
C4_ExitStatus ==
  pc = "exited" =>
    /\ ExchangeCompleted => exit = 0
    /\ AnyFailure => exit # 0

\* C5: a read (stale flush, response read, trailing flush) that returns an
\* error is the last step of the run: nothing is issued after it and the
\* process has exited with status 1.
C5_ReadErrorIsFatal ==
  \A i \in 1..Len(calls) :
    (calls[i].ev = "ret" /\ calls[i].site \in ReadSites /\ calls[i].err) =>
      (i = Len(calls) /\ pc = "exited" /\ exit = 1)

C5_Witness ==
  /\ pc = "exited"
  /\ calls # <<>>
  /\ Returned(Len(calls), "read")
  /\ Last(calls).err
  /\ \E i \in 1..Len(calls) : Returned(i, "write")

ExchangeSites == {"flush1", "write", "read", "decode", "flush2"}

\* the exchange events of the log, in order
ExchangeLog ==
  LET x == SelectSeq(calls, LAMBDA e : e.site \in ExchangeSites)
  IN [k \in 1..Len(x) |-> <<x[k].ev, x[k].site>>]

StrictOrder ==
  << <<"call", "flush1">>, <<"ret", "flush1">>, <<"call", "write">>,
     <<"ret", "write">>, <<"call", "read">>, <<"ret", "read">>,
     <<"decode", "decode">>, <<"call", "flush2">>, <<"ret", "flush2">> >>

\* C6: the exchange is strictly sequential: its calls and returns appear in
\* the order flush, write, read, decode, flush, each call returning before
\* the next is issued, and at most one library call is in flight.
C6_StrictSequence ==
  /\ Len(ExchangeLog) <= Len(StrictOrder)
  /\ ExchangeLog = SubSeq(StrictOrder, 1, Len(ExchangeLog))
  /\ Cardinality(inflight) <= 1

C6_Witness ==
  /\ pc = "exited"
  /\ exit = 0
  /\ ExchangeLog = StrictOrder

\* C7: the reading is reported Valid exactly when 450 <= v <= 2000, and the
\* report carries the decoded value unchanged in both outcomes.
C7_ClassifyRange ==
  report # <<>> =>
    /\ Last(report).kind \in {"Valid", "OutOfRange"}
    /\ Last(report).kind = "Valid" <=> (450 <= voc /\ voc <= 2000)
    /\ Last(report).value = voc
    /\ voc = 449 => Last(report).kind = "OutOfRange"
    /\ voc = 2001 => Last(report).kind = "OutOfRange"

C7_Witness ==
  /\ voc = 450
  /\ report = <<[kind |-> "Valid", value |-> 450]>>

\* C8: for every pair of bytes (lo, hi) the decoded value is lo + 256*hi,
\* minus 65536 when hi >= 128, and the decode step is always possible.
C8_DecodeLittleEndian ==
  /\ pc = "decode" => ENABLED Decode
  /\ report # <<>> =>
       voc = buf.b2 + 256 * buf.b3 - (IF buf.b3 >= 128 THEN 65536 ELSE 0)

C8_Witness ==
  /\ report # <<>>
  /\ buf.b2 = 255
  /\ buf.b3 = 128
  /\ voc = -32513

SessionState ==
  IF pc \in {"new_ctx", "open", "claim", "in_ep", "out_ep"} THEN "Unopened"
  ELSE IF pc = "flush1" THEN "Opened"
  ELSE IF pc = "write" THEN "Flushed"
  ELSE IF pc \in {"read", "decode"} THEN "Requested"
  ELSE IF pc = "flush2" THEN "Decoded"
  ELSE IF pc = "return" \/ (pc = "exited" /\ exit = 0) THEN "Closed"
  ELSE "Failed"

SessionRank ==
  CASE SessionState = "Unopened" -> 0
    [] SessionState = "Opened" -> 1
    [] SessionState = "Flushed" -> 2
    [] SessionState = "Requested" -> 3
    [] SessionState = "Decoded" -> 4
    [] OTHER -> 5

WriteCount == Cardinality({i \in 1..Len(calls) : calls[i].ev = "call" /\ calls[i].site = "write"})

ReadCount == Cardinality({i \in 1..Len(calls) : calls[i].ev = "call" /\ calls[i].site = "read"})

DecodeCount == Cardinality({i \in 1..Len(calls) : calls[i].ev = "decode"})

\* C9: one request cycle per run: the command is written at most once, the
\* response read and decoded at most once, and every step either stays in the
\* session state it is in or moves to a state further on; none is re-entered.
C9_OneCycle ==
  [][ /\ (SessionRank' > SessionRank \/ SessionState' = SessionState)
      /\ WriteCount' <= 1
      /\ ReadCount' <= 1
      /\ DecodeCount' <= 1 ]_vars

C9_Witness ==
  /\ pc = "exited"
  /\ exit = 0
  /\ WriteCount = 1
  /\ ReadCount = 1
  /\ DecodeCount = 1
  /\ Len(report) = 1

\* C10: once the initial flush has returned, no stale packet is pending on
\* the IN endpoint, and the bytes that are decoded are not stale bytes.
C10_FlushDrainsStale ==
  /\ pc = "write" => \A i \in 1..Len(inq) : inq[i].src # "stale"
  /\ pc = "flush2" => (buf.s2 # "stale" /\ buf.s3 # "stale")

\* C11: every device the run opens has the vendor:product given by the
\* -device flag; no other device is opened.
C11_OpensConfiguredSelector ==
  \A i \in 1..Len(devs) : attached[devs[i]] = flags.device

\* C12: the interface and the endpoints that are opened are those of the
\* configured config, interface and alternate setting, the endpoints have the
\* configured endpoint number, and a failed endpoint open is fatal and the
\* fatal line names the direction of the endpoint that failed.
C12_OpensConfiguredEndpoints ==
  /\ \A i \in 1..Len(opened) :
       /\ opened[i].cfg = flags.config
       /\ opened[i].iface = flags.iface
       /\ opened[i].setup = flags.setup
       /\ opened[i].what \in {"IN", "OUT"} => opened[i].ep = flags.endpoint
  /\ \A i \in 1..Len(calls) :
       /\ (Returned(i, "in_ep") /\ calls[i].err) =>
            (pc = "exited" /\ exit = 1 /\ msg = "IN")
       /\ (Returned(i, "out_ep") /\ calls[i].err) =>
            (pc = "exited" /\ exit = 1 /\ msg = "OUT")

DeviceSites == {"claim", "in_ep", "out_ep", "flush1", "write", "read", "flush2"}

\* C13: when several matching devices were returned, every call on a device
\* goes to the first of them, and when the run has ended every returned
\* handle has been released.
C13_FirstOfSeveral ==
  Len(devs) >= 2 =>
    /\ \A i \in 1..Len(calls) :
         calls[i].site \in DeviceSites => calls[i].h = Matches(flags.device)[1]
    /\ pc = "exited" =>
         \A i \in 1..Len(devs) : Times(released, DevNames[devs[i]]) = 1

AcqPos(r) == CHOOSE i \in 1..Len(acquired) : acquired[i] = r

IsDev(r) == \E i \in 1..Len(DevNames) : DevNames[i] = r

\* C14 as stated: no resource is released before a resource acquired after it.
C14_StrictReverseOrder ==
  \A i \in 1..Len(released) : \A j \in 1..Len(released) :
    i < j => AcqPos(released[i]) > AcqPos(released[j])

\* C14: resources are released in reverse order of acquisition, the interface
\* before the device handles and the device handles before the context,
\* except that the device handles of one ListDevices call are closed among
\* themselves in the order in which they were returned.
C14_ReverseOrderByKind ==
  \A i \in 1..Len(released) : \A j \in 1..Len(released) :
    i < j =>
      IF IsDev(released[i]) /\ IsDev(released[j])
      THEN AcqPos(released[i]) < AcqPos(released[j])
      ELSE AcqPos(released[i]) > AcqPos(released[j])

C14_Witness ==
  /\ pc = "exited"
  /\ exit = 0
  /\ released = <<"intf", "dev1", "ctx">>

\* C15: if every library call returns, every run ends, and it ends either
\* Closed (main returned, status 0) or Failed (fatal log line, status 1).
C15_EndsClosedOrFailed == <>(pc = "exited" /\ exit \in {0, 1})

ReadRet == CHOOSE i \in 1..Len(calls) : Returned(i, "read")

\* C16: when the response read delivers fewer than 4 bytes, the value that is
\* decoded contains a byte left from the command frame, is at least 21504 and
\* is reported as out of range.
C16_ShortResponseOutOfRange ==
  (pc = "flush2" /\ calls[ReadRet].n < 4) =>
    /\ buf.s2 = "command" \/ buf.s3 = "command"
    /\ voc >= 21504
    /\ Last(report).kind = "OutOfRange"

C16_Witness ==
  /\ pc = "flush2"
  /\ calls[ReadRet].n = 3
  /\ ~calls[ReadRet].err
  /\ buf.s2 = "response"
  /\ voc = 21504

IOSites == {"flush1", "write", "read", "flush2"}

OkBefore(i, site) ==
  \E j \in 1..(i - 1) : Returned(j, site) /\ ~calls[j].err

\* C17: a read or write is issued only after the device was opened, the
\* interface claimed (main.go) and both endpoints opened without error.
C17_IOOnlyWhenOpened ==
  \A i \in 1..Len(calls) :
    (calls[i].ev = "call" /\ calls[i].site \in IOSites) =>
      /\ \E j \in 1..(i - 1) : Returned(j, "open") /\ ~calls[j].err /\ calls[j].n >= 1
      /\ calls[i].h # 0
      /\ variant = "main_go" => OkBefore(i, "claim")
      /\ OkBefore(i, "in_ep")
      /\ OkBefore(i, "out_ep")

C17_Witness ==
  /\ variant = "main_go"
  /\ calls # <<>>
  /\ Last(calls).ev = "call"
  /\ Last(calls).site = "write"
  /\ Len(opened) = 3

ReadOk == \E i \in 1..Len(calls) : Returned(i, "read") /\ ~calls[i].err

\* C18: the reading is reported before the trailing flush is issued: a run
\* whose response read succeeded reports exactly one reading, also when the
\* trailing flush fails, and a run that failed earlier reports none.
C18_ReportedOnceBeforeFlush ==
  /\ Len(report) <= 1
  /\ ~ReadOk => report = <<>>
  /\ \A i \in 1..Len(calls) :
       (calls[i].ev = "call" /\ calls[i].site = "flush2") =>
         (Len(report) = 1 /\ \E j \in 1..(i - 1) : calls[j].ev = "decode")
  /\ pc = "exited" => (Len(report) = 1 <=> ReadOk)

C18_Witness ==
  /\ pc = "exited"
  /\ exit = 1
  /\ Returned(Len(calls), "flush2")
  /\ Last(calls).err
  /\ Len(report) = 1

====
